---- MODULE Spec2Model ----
(***************************************************************************)
(* Agent execution controller of agent-core: the shared controller state,  *)
(* the pause/resume/stop command protocol, Agent::execute and the          *)
(* execution loop with its turns (src/src/controller.rs, src/src/agent.rs).*)
(***************************************************************************)
EXTENDS Integers, Sequences, FiniteSets, TLC

\* ------------------------------------------------------------------ bounds
MaxLoops   == 2   \* calls of Agent::execute that spawn a loop
MaxInputs  == 2   \* input messages sent over all input channels
MaxCalls   == 2   \* pause()/resume()/stop() calls over all controller clones
MaxEvents  == 1   \* non-terminal engine events fetched over all turns
MaxCloses  == 1   \* output and plan receivers dropped while their loop runs
MaxReexecInputs == 1  \* MaxInputs where execute() is called again
NumCallers == 2   \* tasks holding a clone of the controller
MaxStreamEvents == 2  \* MaxEvents where the events carry their payload
MaxStreamInputs == 2  \* MaxInputs where the events carry their payload
MaxCap     == 2   \* largest capacity of an output channel given to execute()
MaxApplications == 2  \* applications of convert_event_to_output to one event
MaxTicks   == 1   \* ticks of the loops that are counted

Loops   == 1..MaxLoops
Callers == 1..NumCallers
Kinds   == {"Pause", "Resume", "Stop"}

\* EventMsg variants the engine can return from next_event()
EventKinds == {"AgentMessageDelta", "PlanUpdate", "TokenCount", "TurnAborted", "Error",
               "TaskComplete"}

VARIABLES
    \* AgentState (controller.rs 18-33), shared by every clone of the controller
    execution_state,  \* Mutex<ExecutionState>; Error(reason) is "Error"
    turn_count,       \* AtomicU64
    is_paused,        \* AtomicBool
    should_stop,      \* AtomicBool
    lock,             \* holder of the control_sender mutex (0: free)
    \* the control channel (unbounded mpsc)
    control_q,        \* commands in flight: [kind, from]
    rx_owner,         \* where control_rx lives: 0 the Agent, l a loop, -1 dropped
    slot,             \* per caller, its oneshot: "none", "pending", "Ok", "dropped"
    \* callers of pause()/resume()/stop()
    cpc,              \* "idle", "locking", "awaiting"
    ccmd,             \* the command of the call in progress
    cstale,           \* whether a Stop had been applied when the call was made
    cmidturn,         \* whether a turn was in progress when the command was sent
    last_ret,         \* the call that returned last: [cmd, res, stale]
    ncalls,
    \* Agent
    nexec,            \* loops spawned by execute()
    exec_err,         \* the last call of execute() returned an error
    \* per loop (ExecutionContext and the task's position)
    pc,
    cmd,              \* the command being handled
    input_q,          \* the input channel's buffer (message ids)
    input_closed,     \* the caller closed (or dropped) its sender
    nsent,            \* messages the caller has sent on this input channel
    held,             \* the input message the loop holds (0: none)
    turn_id,          \* process_input_message's local turn_id
    nev,              \* non-terminal events fetched so far
    output,           \* everything sent on the output channel: [turn_id, data, input]
    out_closed,       \* the output receiver was dropped
    plan_sent,        \* the PlanMessages sent on the plan channel (their todos)
    plan_closed,      \* the plan receiver was dropped
    submitted,        \* inputs submitted to the engine, in order
    ncloses,
    \* history
    accepted,         \* <<l, k>>: input k of loop l entered process_input_message
    guarded,          \* inputs sent after an acknowledged pause() with no resume() called since
    pause_acked,      \* a pause() was acknowledged and no resume() was called since
    events,           \* per loop, what next_event() returned so far: [input, ev, arg]
    \* the consumer of a loop's output channel
    nrecv,            \* messages received from the output channel so far
    out_cap,          \* the capacity the caller gave the output channel
    qpc,              \* Agent::query: "none", "recv", "await", "Ok", "Err"
    qtext,            \* Agent::query: the text accumulated so far
    \* convert_event_to_output, applied to one event on its own
    norm_in,          \* the event: [kind, arg]
    norm_out,         \* its outputs so far, one per application: [data, text]
    plan_in,          \* the todos of a PlanMessage: [content, status]
    plan_pct,         \* what completion_percentage() returned for it, if called
    nticks,           \* ghost: the ticks taken so far, counted up to MaxTicks
    resolved          \* per loop: what awaiting its AgentHandle returned, "no" before

ctlvars  == <<execution_state, turn_count, is_paused, should_stop>>
chanvars == <<lock, control_q, rx_owner, slot>>
callvars == <<cpc, ccmd, cstale, cmidturn, last_ret, ncalls>>
loopvars == <<pc, cmd, held, turn_id>>
inchan   == <<input_q, input_closed, nsent>>
outchan  == <<output, out_closed, plan_sent, plan_closed, submitted>>
budget   == <<nev, ncloses>>
iovars   == <<inchan, outchan, budget>>
histvars == <<accepted, guarded, pause_acked, events>>
agentvars == <<nexec, exec_err>>
consvars == <<nrecv, out_cap, qpc, qtext>>
purevars == <<norm_in, norm_out, plan_in, plan_pct>>
tickvars == <<nticks>>
handvars == <<resolved>>
extvars  == <<consvars, purevars, tickvars, handvars>>
vars == <<ctlvars, chanvars, callvars, agentvars, loopvars, iovars, histvars, extvars>>

NoCmd == [kind |-> "none", from |-> 0]
NoRet == [cmd |-> "none", res |-> "none", stale |-> FALSE]

\* ------------------------------------------------------- controller.rs

\* AgentController::new: the initial AgentState
NewState == [execution_state |-> "Idle", turn_count |-> 0,
             is_paused |-> FALSE, should_stop |-> FALSE]

\* Faulty variants of increment_turn_count: no increment, and a double one.
IncrementTurnCount_None(n) == n

IncrementTurnCount_Twice(n) == n + 2

\* increment_turn_count: fetch_add(1)
IncrementTurnCount(n) == n + 1

\* Faulty variant of the is_paused store: Pause toggles the flag.
PausedAfter_Toggle(kind, p) ==
    CASE kind = "Pause"  -> ~p
      [] kind = "Resume" -> FALSE
      [] kind = "Stop"   -> FALSE
      [] OTHER           -> p

\* handle_control_command: the stores to is_paused and should_stop
PausedAfter(kind, p) ==
    CASE kind = "Pause"  -> TRUE
      [] kind = "Resume" -> FALSE
      [] kind = "Stop"   -> FALSE
      [] OTHER           -> p

StopAfter(kind, s) == IF kind = "Stop" THEN TRUE ELSE s

\* handle_control_command: the ExecutionState it sets
StateAfter(kind) ==
    CASE kind = "Pause"  -> "Paused"
      [] kind = "Resume" -> "Running"
      [] kind = "Stop"   -> "Stopped"

\* handle_control_command: what it sends on the command's response slot
ResponseOf(kind) == "Ok"

\* Faulty variant of wait_if_paused: it never waits.
WaitBlocked_Never(p, s) == FALSE

\* wait_if_paused: the condition of its polling loop
WaitBlocked(p, s) == p /\ ~s

\* Faulty variant of the send: it succeeds although the receiver is gone.
SendSucceeds_Always(owner) == TRUE

\* pause()/resume()/stop(): the send succeeds while the receiver exists
SendSucceeds(owner) == owner # -1

\* Faulty variant of the control_sender mutex: it never excludes anyone.
LockFree_Always(lk) == TRUE

\* control_sender.lock().await: the mutex can be taken when nobody holds it
LockFree(lk) == lk = 0

\* control_sender: new() stores Some(control_tx) and nothing stores None
ControlSenderIsSome == TRUE

\* pause()/resume()/stop(): the error of a call that does not reach the loop
\* (the None branch reports "Agent controller is not active", a failed send
\* reports "Failed to send ... command")
SendError == IF ControlSenderIsSome THEN "ChannelSend" ELSE "NotActive"

\* pause()/resume()/stop(): the result of a call from the state of its slot
ResultOf(s) == IF s = "Ok" THEN "Ok" ELSE "ChannelReceive"

\* ------------------------------------------------------------ agent.rs

\* Faulty variant of the failing setup: Running is set before the conversation
\* is created.
SetupFailureState_Running(st) == "Running"

\* Agent::execute: the state left when the conversation cannot be created (the
\* error is returned before set_execution_state is reached)
SetupFailureState(st) == st

\* Agent::execute: the state set before the loop is spawned
ExecuteState == "Running"

\* Faulty variants of the break after a command: never, and inverted.
BreakAfterControl_Never(s) == FALSE

BreakAfterControl_Inverted(s) == ~s

\* execution_loop, control branch: break after a handled command
BreakAfterControl(s) == s

\* execution_loop, input branch: break after wait_if_paused
BreakAfterWait(s) == s

\* Faulty variant of the final state: it is never reset.
FinalState_Keep(st, s) == st

\* execution_loop: the final state (set to Idle unless a stop was requested)
FinalState(st, s) == IF ~s THEN "Idle" ELSE st

\* Faulty variant of the conversion: message deltas are dropped.
ConvertEventToOutput_DropDelta(e) ==
    CASE e = "TaskComplete" -> "Completed"
      [] e = "TurnAborted"  -> "Error"
      [] e = "Error"        -> "Error"
      [] OTHER              -> "None"

\* Faulty variant of the conversion: only the end of a task is Completed.
ConvertEventToOutput_TaskOnly(e) ==
    CASE e = "AgentMessageDelta" -> "PrimaryDelta"
      [] e = "TaskComplete"      -> "Completed"
      [] e = "TurnAborted"       -> "Error"
      [] e = "Error"             -> "Error"
      [] OTHER                   -> "None"

\* convert_event_to_output: the kind of OutputData ("None" for no output)
ConvertEventToOutput(e) ==
    CASE e = "AgentMessage"                  -> "Primary"
      [] e = "AgentMessageDelta"             -> "PrimaryDelta"
      [] e = "AgentReasoning"                -> "Reasoning"
      [] e = "AgentReasoningDelta"           -> "ReasoningDelta"
      [] e = "AgentReasoningRawContent"      -> "Reasoning"
      [] e = "AgentReasoningRawContentDelta" -> "ReasoningDelta"
      [] e = "TaskComplete"                  -> "Completed"
      [] e = "TaskStarted"                   -> "Start"
      [] e = "Error"                         -> "Error"
      [] e \in {"ExecCommandBegin", "McpToolCallBegin", "WebSearchBegin",
                "PatchApplyBegin"}           -> "ToolStart"
      [] e \in {"ExecCommandEnd", "McpToolCallEnd", "PatchApplyEnd"}
                                             -> "ToolComplete"
      [] e = "ExecCommandOutputDelta"        -> "ToolOutput"
      [] e = "StreamError"                   -> "Error"
      [] e \in {"TokenCount", "SessionConfigured", "ConversationHistory",
                "McpListToolsResponse", "GetHistoryEntryResponse"}
                                             -> "None"
      [] e = "TurnAborted"                   -> "Error"
      [] e = "ShutdownComplete"              -> "Completed"
      [] OTHER                               -> "None"

\* Faulty variant of the turn id: one ahead of the counter.
TurnIdOf_Ahead(tc) == tc + 1

\* process_input_message: turn_id is the counter read after the increment
TurnIdOf(tc) == tc

\* Faulty variant of the fetch-error arm: it returns the error.
FetchErrorResult_Err == "Err"

\* process_input_message: after a failed fetch whose Error output was sent,
\* the event loop breaks and the function returns Ok(())
FetchErrorResult == "Ok"

\* Faulty variant of is_complete: no event ends the turn.
IsComplete_Never(e) == FALSE

\* process_input_message: is_complete
IsComplete(e) == e = "TaskComplete"

\* OutputMessage::new(turn_id, data); text is the content of the data (the
\* input is the message the loop holds when it sends: 0 for the final Completed)
OutWith(t, d, k, x) == [turn_id |-> t, data |-> d, input |-> k, text |-> x]

Out(t, d, k) == OutWith(t, d, k, <<>>)

\* The payload of an event whose payload does not matter.
NoArg == <<>>

\* convert_event_to_output: the reason it gives for TurnAborted
AbortReason == <<"Turn was aborted">>

\* Faulty variant of the content: the fragment is not copied.
OutputText_Empty(e, a) == <<>>

\* convert_event_to_output: the content of the output of event e with payload a
OutputText(e, a) ==
    CASE e \in {"AgentMessage", "AgentMessageDelta", "AgentReasoning",
                "AgentReasoningDelta", "AgentReasoningRawContent",
                "AgentReasoningRawContentDelta", "Error", "StreamError"} -> a
      [] e = "TurnAborted" -> AbortReason
      [] OTHER -> <<>>

\* Faulty variant of the conversion of a plan item: the status is reset, as
\* TodoItem::new does.
FromPlanItemArg_Pending(item) == [content |-> item.step, status |-> "Pending"]

\* TodoItem::from_plan_item_arg (the fresh id and the timestamps are left out)
FromPlanItemArg(item) == [content |-> item.step, status |-> item.status]

\* PlanMessage::from_update_plan_args: the todos of the message
FromUpdatePlanArgs(plan) == [i \in 1..Len(plan) |-> FromPlanItemArg(plan[i])]

\* async_channel::bounded(100): the capacity query() gives its output channel
QueryCapacity == 100

\* Faulty variant of the bounded send: it never waits for room.
OutputHasRoom_Always(n, cap) == TRUE

\* output_tx.send(..).await on a bounded channel holding n messages: it
\* completes only when there is room
OutputHasRoom(n, cap) == n < cap

\* PublicExecutionState::is_active and is_finished
IsActive(st) == st \in {"Running", "Paused"}

IsFinished(st) == st \in {"Stopped", "Error"}

\* --------------------------------------------------- plan.rs: percentage

\* An f32 value v >= 0 is [m, e] with v = m / 2^e; a value other than 0 has
\* 2^(F32Mant-1) <= m < 2^F32Mant, the 24 significant bits of the type.
F32Mant == 24

F32Zero == [m |-> 0, e |-> 0]

\* The literal 1.0.
F32One == [m |-> 2^(F32Mant - 1), e |-> F32Mant - 1]

NoPct == [m |-> -1, e |-> 0]

\* q / n rounded to the nearest integer, ties to even.
RoundHalfEven(q, n) ==
    LET d == q \div n
        r == q % n
    IN  IF 2 * r > n \/ (2 * r = n /\ d % 2 = 1) THEN d + 1 ELSE d

RECURSIVE F32Scaled(_, _, _)
F32Scaled(q, n, e) ==
    IF q >= n * 2^(F32Mant - 1)
    THEN [m |-> RoundHalfEven(q, n), e |-> e]
    ELSE F32Scaled(2 * q, n, e + 1)

\* c as f32 / n as f32 for counts 0 <= c <= n, n > 0: the quotient rounded
\* to 24 significant bits (a count this small converts to f32 exactly).
F32Div(c, n) == IF c = 0 THEN F32Zero ELSE F32Scaled(c, n, 0)

IsCompleted_NotPending(todo) == todo.status # "Pending"

\* matches!(todo.status, StepStatus::Completed)
IsCompleted(todo) == todo.status = "Completed"

\* PlanMessage::completed_todos
CompletedTodos(todos) == SelectSeq(todos, IsCompleted)

\* PlanMessage::completion_percentage
CompletionPercentage(todos) ==
    IF Len(todos) = 0
    THEN F32One
    ELSE F32Div(Len(CompletedTodos(todos)), Len(todos))

\* The messages in the output channel's buffer, and whether a send on it
\* returns (with an error at once if the receiver is gone).
Buffered(l) == Len(output[l]) - nrecv[l]

SendReturns(l) == out_closed[l] \/ OutputHasRoom(Buffered(l), out_cap[l])

\* -------------------------------------------------------------- Init

InitAll(cap, ev, todos) ==
    /\ execution_state = NewState.execution_state
    /\ turn_count = NewState.turn_count
    /\ is_paused = NewState.is_paused
    /\ should_stop = NewState.should_stop
    /\ lock = 0
    /\ control_q = <<>>
    /\ rx_owner = 0
    /\ slot = [c \in Callers |-> "none"]
    /\ cpc = [c \in Callers |-> "idle"]
    /\ ccmd = [c \in Callers |-> "none"]
    /\ cstale = [c \in Callers |-> FALSE]
    /\ cmidturn = [c \in Callers |-> FALSE]
    /\ last_ret = NoRet
    /\ ncalls = 0
    /\ nexec = 0
    /\ exec_err = FALSE
    /\ pc = [l \in Loops |-> "none"]
    /\ cmd = [l \in Loops |-> NoCmd]
    /\ input_q = [l \in Loops |-> <<>>]
    /\ input_closed = [l \in Loops |-> FALSE]
    /\ nsent = [l \in Loops |-> 0]
    /\ held = [l \in Loops |-> 0]
    /\ turn_id = [l \in Loops |-> 0]
    /\ nev = 0
    /\ ncloses = 0
    /\ output = [l \in Loops |-> <<>>]
    /\ out_closed = [l \in Loops |-> FALSE]
    /\ plan_sent = [l \in Loops |-> <<>>]
    /\ plan_closed = [l \in Loops |-> FALSE]
    /\ submitted = [l \in Loops |-> <<>>]
    /\ accepted = {}
    /\ guarded = {}
    /\ pause_acked = FALSE
    /\ events = [l \in Loops |-> <<>>]
    /\ nrecv = [l \in Loops |-> 0]
    /\ out_cap = [l \in Loops |-> cap]
    /\ qpc = [l \in Loops |-> "none"]
    /\ qtext = [l \in Loops |-> <<>>]
    /\ norm_in = ev
    /\ norm_out = <<>>
    /\ plan_in = todos
    /\ plan_pct = NoPct
    /\ nticks = 0
    /\ resolved = [l \in Loops |-> "no"]

\* The state after Agent::new; no plan message exists yet.
InitWith(cap, ev) == InitAll(cap, ev, <<>>)

\* No event is given to convert_event_to_output on its own.
NoEvent == [kind |-> "none", arg |-> NoArg]

\* The state after Agent::new, with output channels of capacity cap.
InitCap(cap) == InitWith(cap, NoEvent)

\* The state after Agent::new, with output channels as roomy as query()'s.
Init == InitCap(QueryCapacity)

\* ------------------------------------------- pause() / resume() / stop()

\* A loop is inside process_input_message, past the increment of the counter.
TurnInProgress == \E l \in Loops : pc[l] \in {"turn_start", "submit", "events", "ev_wait"}

\* The call's command is sent under the control_sender lock; a failed send
\* returns ChannelSend at once and unlocks.
SendCommand(c, k, stale) ==
    IF ControlSenderIsSome /\ SendSucceeds(rx_owner)
    THEN /\ lock' = c
         /\ control_q' = Append(control_q, [kind |-> k, from |-> c])
         /\ slot' = [slot EXCEPT ![c] = "pending"]
         /\ cpc' = [cpc EXCEPT ![c] = "awaiting"]
         /\ ccmd' = [ccmd EXCEPT ![c] = k]
         /\ cstale' = [cstale EXCEPT ![c] = stale]
         /\ cmidturn' = [cmidturn EXCEPT ![c] = TurnInProgress]
         /\ UNCHANGED last_ret
    ELSE /\ last_ret' = [cmd |-> k, res |-> SendError, stale |-> stale]
         /\ cpc' = [cpc EXCEPT ![c] = "idle"]
         /\ ccmd' = [ccmd EXCEPT ![c] = "none"]
         /\ cstale' = [cstale EXCEPT ![c] = FALSE]
         /\ UNCHANGED <<lock, control_q, slot, cmidturn>>

\* A task calls pause(), resume() or stop(): it takes the control_sender lock
\* and sends, or waits for the lock while another call holds it. The clones of
\* the controller are interchangeable: a call is made by the lowest idle one.
CallBegin(c, k) ==
    /\ cpc[c] = "idle"
    /\ \A b \in Callers : b < c => cpc[b] # "idle"
    /\ ncalls < MaxCalls
    /\ ncalls' = ncalls + 1
    /\ guarded' = IF k = "Resume" THEN {} ELSE guarded
    /\ pause_acked' = IF k = "Resume" THEN FALSE ELSE pause_acked
    /\ IF LockFree(lock)
       THEN SendCommand(c, k, should_stop)
       ELSE /\ cpc' = [cpc EXCEPT ![c] = "locking"]
            /\ ccmd' = [ccmd EXCEPT ![c] = k]
            /\ cstale' = [cstale EXCEPT ![c] = should_stop]
            /\ UNCHANGED <<lock, control_q, slot, cmidturn, last_ret>>
    /\ UNCHANGED <<extvars, ctlvars, rx_owner, agentvars, loopvars, iovars, accepted, events>>

\* The lock is free: the waiting call takes it and sends.
CallSend(c) ==
    /\ cpc[c] = "locking"
    /\ LockFree(lock)
    /\ SendCommand(c, ccmd[c], cstale[c])
    /\ UNCHANGED <<extvars, ctlvars, rx_owner, ncalls, agentvars, loopvars, iovars, histvars>>

\* The response arrives, or the slot was dropped: the call returns and unlocks.
CallReturn(c) ==
    /\ cpc[c] = "awaiting"
    /\ slot[c] \in {"Ok", "dropped"}
    /\ last_ret' = [cmd |-> ccmd[c], res |-> ResultOf(slot[c]), stale |-> cstale[c]]
    /\ slot' = [slot EXCEPT ![c] = "none"]
    /\ cpc' = [cpc EXCEPT ![c] = "idle"]
    /\ ccmd' = [ccmd EXCEPT ![c] = "none"]
    /\ cstale' = [cstale EXCEPT ![c] = FALSE]
    /\ cmidturn' = [cmidturn EXCEPT ![c] = FALSE]
    /\ lock' = 0
    /\ UNCHANGED <<extvars, ctlvars, control_q, rx_owner, ncalls, agentvars, loopvars, iovars, histvars>>

\* ------------------------------------------------------ Agent::execute

\* The conversation cannot be created: execute() returns the error before
\* anything is set or spawned.
ExecuteFail ==
    /\ nexec < MaxLoops
    /\ exec_err' = TRUE
    /\ execution_state' = SetupFailureState(execution_state)
    /\ UNCHANGED <<extvars, turn_count, is_paused, should_stop, chanvars, callvars, nexec, loopvars,
                   iovars, histvars>>

\* execute() sets Running and spawns a loop; the first loop gets the control
\* receiver, a later one the receiver of a fresh channel whose sender is gone.
Execute ==
    /\ nexec < MaxLoops
    /\ nexec' = nexec + 1
    /\ exec_err' = FALSE
    /\ execution_state' = ExecuteState
    /\ pc' = [pc EXCEPT ![nexec + 1] = "select"]
    /\ rx_owner' = IF rx_owner = 0 THEN nexec + 1 ELSE rx_owner
    /\ UNCHANGED <<extvars, turn_count, is_paused, should_stop, lock, control_q, slot, callvars,
                   cmd, held, turn_id, iovars, histvars>>

\* The first execute() on the Agent.
ExecuteFirst == nexec = 0 /\ Execute

\* execute() is called again on the same Agent.
ExecuteAgain == nexec > 0 /\ Execute

\* ------------------------------------------------- the caller's channels

RECURSIVE SumTo(_, _)
SumTo(f, n) == IF n = 0 THEN 0 ELSE f[n] + SumTo(f, n - 1)

TotalSent == SumTo(nsent, MaxLoops)

\* The caller sends an input message on the input channel of loop l. (A message
\* sent before execute() is one sent before the loop's first step.)
SendInput(l) ==
    /\ pc[l] # "none"
    /\ ~input_closed[l]
    /\ TotalSent < MaxInputs
    /\ nsent' = [nsent EXCEPT ![l] = @ + 1]
    /\ input_q' = [input_q EXCEPT ![l] = Append(@, nsent[l] + 1)]
    /\ guarded' = IF pause_acked THEN guarded \cup {<<l, nsent[l] + 1>>} ELSE guarded
    /\ UNCHANGED <<extvars, ctlvars, chanvars, callvars, agentvars, loopvars, input_closed, outchan,
                   budget, accepted, pause_acked, events>>

\* The caller closes the input channel.
CloseInput(l) ==
    /\ pc[l] # "none"
    /\ ~input_closed[l]
    /\ input_closed' = [input_closed EXCEPT ![l] = TRUE]
    /\ UNCHANGED <<extvars, ctlvars, chanvars, callvars, agentvars, loopvars, input_q, nsent, outchan,
                   budget, histvars>>

\* The consumer drops the output receiver.
CloseOutput(l) ==
    /\ pc[l] \notin {"none", "exited"}
    /\ ~out_closed[l]
    /\ ncloses < MaxCloses
    /\ ncloses' = ncloses + 1
    /\ out_closed' = [out_closed EXCEPT ![l] = TRUE]
    /\ UNCHANGED <<extvars, ctlvars, chanvars, callvars, agentvars, loopvars, inchan, output, plan_sent,
                   plan_closed, submitted, nev, histvars>>

\* The consumer drops the plan receiver.
ClosePlan(l) ==
    /\ pc[l] \notin {"none", "exited"}
    /\ ~plan_closed[l]
    /\ ncloses < MaxCloses
    /\ ncloses' = ncloses + 1
    /\ plan_closed' = [plan_closed EXCEPT ![l] = TRUE]
    /\ UNCHANGED <<extvars, ctlvars, chanvars, callvars, agentvars, loopvars, inchan, output, out_closed,
                   plan_sent, submitted, nev, histvars>>

\* ------------------------------------------------------ execution_loop

\* select!, control branch: a command is received and handle_control_command
\* stores the flags.
SelectControl(l) ==
    /\ pc[l] = "select"
    /\ rx_owner = l
    /\ control_q # <<>>
    /\ cmd' = [cmd EXCEPT ![l] = Head(control_q)]
    /\ control_q' = Tail(control_q)
    /\ is_paused' = PausedAfter(Head(control_q).kind, is_paused)
    /\ should_stop' = StopAfter(Head(control_q).kind, should_stop)
    /\ pc' = [pc EXCEPT ![l] = "control"]
    /\ UNCHANGED <<extvars, execution_state, turn_count, lock, rx_owner, slot, callvars, agentvars,
                   held, turn_id, iovars, histvars>>

\* Some resume() call has been made and has not returned.
ResumeCalled == \E c \in Callers : cpc[c] # "idle" /\ ccmd[c] = "Resume"

\* handle_control_command sets the state and answers; the loop breaks if
\* should_stop.
ControlFinish(l) ==
    /\ pc[l] = "control"
    /\ execution_state' = StateAfter(cmd[l].kind)
    /\ slot' = [slot EXCEPT ![cmd[l].from] = ResponseOf(cmd[l].kind)]
    /\ pause_acked' = IF cmd[l].kind = "Pause" /\ ~ResumeCalled THEN TRUE ELSE pause_acked
    /\ cmd' = [cmd EXCEPT ![l] = NoCmd]
    /\ pc' = [pc EXCEPT ![l] = IF BreakAfterControl(should_stop) THEN "final" ELSE "select"]
    /\ UNCHANGED <<extvars, turn_count, is_paused, should_stop, lock, control_q, rx_owner, callvars,
                   agentvars, held, turn_id, iovars, accepted, guarded, events>>

\* select!, control branch: recv() returns None (every sender is gone). The
\* controller in the context keeps the real channel's sender alive, so this is
\* the receiver execute() substitutes after the first loop.
SelectControlClosed(l) ==
    /\ pc[l] = "select"
    /\ rx_owner # l
    /\ pc' = [pc EXCEPT ![l] = "final"]
    /\ UNCHANGED <<extvars, ctlvars, chanvars, callvars, agentvars, cmd, held, turn_id, iovars, histvars>>

AfterTick_Break == "final"

\* select!, tick branch: `continue`, the loop selects again.
AfterTick == "select"

\* select!, input branch: a message is received.
SelectInput(l) ==
    /\ pc[l] = "select"
    /\ input_q[l] # <<>>
    /\ held' = [held EXCEPT ![l] = Head(input_q[l])]
    /\ input_q' = [input_q EXCEPT ![l] = Tail(@)]
    /\ pc' = [pc EXCEPT ![l] = "wait_paused"]
    /\ UNCHANGED <<extvars, ctlvars, chanvars, callvars, agentvars, cmd, turn_id, input_closed, nsent,
                   outchan, budget, histvars>>

\* select!, input branch: the channel is closed and empty.
SelectInputClosed(l) ==
    /\ pc[l] = "select"
    /\ input_q[l] = <<>>
    /\ input_closed[l]
    /\ pc' = [pc EXCEPT ![l] = "final"]
    /\ UNCHANGED <<extvars, ctlvars, chanvars, callvars, agentvars, cmd, held, turn_id, iovars, histvars>>

\* select!, the one-second sleep: continue.
SelectTickCounted(l, max) ==
    /\ pc[l] = "select"
    /\ pc' = [pc EXCEPT ![l] = AfterTick]
    /\ nticks' = IF nticks < max THEN nticks + 1 ELSE nticks
    /\ UNCHANGED <<consvars, purevars, handvars, ctlvars, chanvars, callvars, agentvars, cmd,
                   held, turn_id, iovars, histvars>>

\* The tick, not counted.
SelectTick(l) == SelectTickCounted(l, 0)

\* wait_if_paused: one round of its polling loop (sleep 100 ms, then test again).
WaitIfPausedPoll(l) ==
    /\ pc[l] \in {"wait_paused", "ev_wait"}
    /\ WaitBlocked(is_paused, should_stop)
    /\ UNCHANGED vars

\* wait_if_paused returns; the loop breaks if should_stop, else it enters
\* process_input_message.
WaitDone(l) ==
    /\ pc[l] = "wait_paused"
    /\ ~WaitBlocked(is_paused, should_stop)
    /\ pc' = [pc EXCEPT ![l] = IF BreakAfterWait(should_stop) THEN "final" ELSE "turn_inc"]
    /\ held' = [held EXCEPT ![l] = IF BreakAfterWait(should_stop) THEN 0 ELSE @]
    /\ UNCHANGED <<extvars, ctlvars, chanvars, callvars, agentvars, cmd, turn_id, iovars, histvars>>

\* ---------------------------------------------- process_input_message

\* increment_turn_count()
TurnInc(l) ==
    /\ pc[l] = "turn_inc"
    /\ turn_count' = IncrementTurnCount(turn_count)
    /\ accepted' = accepted \cup {<<l, held[l]>>}
    /\ pc' = [pc EXCEPT ![l] = "turn_start"]
    /\ UNCHANGED <<extvars, execution_state, is_paused, should_stop, chanvars, callvars, agentvars,
                   cmd, held, turn_id, iovars, guarded, pause_acked, events>>

\* turn_id = turn_count(), then Start is sent; a failed send returns the error.
TurnStart(l) ==
    /\ pc[l] = "turn_start"
    /\ SendReturns(l)
    /\ turn_id' = [turn_id EXCEPT ![l] = TurnIdOf(turn_count)]
    /\ IF out_closed[l]
       THEN /\ pc' = [pc EXCEPT ![l] = "turn_err"]
            /\ UNCHANGED output
       ELSE /\ output' = [output EXCEPT ![l] =
                            Append(@, Out(TurnIdOf(turn_count), "Start", held[l]))]
            /\ pc' = [pc EXCEPT ![l] = "submit"]
    /\ UNCHANGED <<extvars, ctlvars, chanvars, callvars, agentvars, cmd, held, inchan, out_closed,
                   plan_sent, plan_closed, submitted, budget, histvars>>

\* submit_with_id succeeds.
Submit(l) ==
    /\ pc[l] = "submit"
    /\ submitted' = [submitted EXCEPT ![l] = Append(@, held[l])]
    /\ pc' = [pc EXCEPT ![l] = "events"]
    /\ UNCHANGED <<extvars, ctlvars, chanvars, callvars, agentvars, cmd, held, turn_id, inchan, output,
                   out_closed, plan_sent, plan_closed, budget, histvars>>

\* submit_with_id fails: the error is returned.
SubmitFail(l) ==
    /\ pc[l] = "submit"
    /\ pc' = [pc EXCEPT ![l] = "turn_err"]
    /\ UNCHANGED <<extvars, ctlvars, chanvars, callvars, agentvars, cmd, held, turn_id, iovars, histvars>>

\* The event loop's first test: break (and return Ok) if should_stop.
EventsCheck(l) ==
    /\ pc[l] = "events"
    /\ IF should_stop
       THEN /\ pc' = [pc EXCEPT ![l] = "select"]
            /\ held' = [held EXCEPT ![l] = 0]
       ELSE /\ pc' = [pc EXCEPT ![l] = "ev_wait"]
            /\ UNCHANGED held
    /\ UNCHANGED <<extvars, ctlvars, chanvars, callvars, agentvars, cmd, turn_id, iovars, histvars>>

\* wait_if_paused has returned and next_event() yields event e with payload a
\* (at most max events that are not a task completion are fetched): its output
\* is sent, a plan update goes to the plan channel, TaskComplete ends the turn.
FetchEvent(l, e, a, max) ==
    /\ pc[l] = "ev_wait"
    /\ ~WaitBlocked(is_paused, should_stop)
    /\ IsComplete(e) \/ nev < max
    /\ ConvertEventToOutput(e) = "None" \/ SendReturns(l)
    /\ nev' = IF IsComplete(e) THEN nev ELSE nev + 1
    /\ events' = [events EXCEPT ![l] = Append(@, [input |-> held[l], ev |-> e, arg |-> a])]
    /\ LET d == ConvertEventToOutput(e)
           sendFails == d # "None" /\ out_closed[l]
           planFails == e = "PlanUpdate" /\ plan_closed[l]
       IN  /\ output' = IF d # "None" /\ ~out_closed[l]
                        THEN [output EXCEPT ![l] =
                                Append(@, OutWith(turn_id[l], d, held[l], OutputText(e, a)))]
                        ELSE output
           /\ plan_sent' = IF e = "PlanUpdate" /\ ~sendFails /\ ~plan_closed[l]
                           THEN [plan_sent EXCEPT ![l] = Append(@, FromUpdatePlanArgs(a))]
                           ELSE plan_sent
           /\ IF sendFails \/ planFails
              THEN /\ pc' = [pc EXCEPT ![l] = "turn_err"]
                   /\ UNCHANGED held
              ELSE IF IsComplete(e)
              THEN /\ pc' = [pc EXCEPT ![l] = "select"]
                   /\ held' = [held EXCEPT ![l] = 0]
              ELSE /\ pc' = [pc EXCEPT ![l] = "events"]
                   /\ UNCHANGED held
    /\ UNCHANGED <<extvars, ctlvars, chanvars, callvars, agentvars, cmd, turn_id, inchan, out_closed,
                   plan_closed, submitted, ncloses, accepted, guarded, pause_acked>>

\* The events of a session with the control protocol: their payload is left out.
Fetch(l, e) == FetchEvent(l, e, NoArg, MaxEvents)

\* next_event() returns an error: an Error output is sent and the turn ends.
FetchErr(l) ==
    /\ pc[l] = "ev_wait"
    /\ ~WaitBlocked(is_paused, should_stop)
    /\ SendReturns(l)
    /\ events' = [events EXCEPT ![l] =
                     Append(@, [input |-> held[l], ev |-> "FetchError", arg |-> NoArg])]
    /\ IF out_closed[l]
       THEN /\ pc' = [pc EXCEPT ![l] = "turn_err"]
            /\ UNCHANGED <<output, held>>
       ELSE /\ output' = [output EXCEPT ![l] = Append(@, Out(turn_id[l], "Error", held[l]))]
            /\ IF FetchErrorResult = "Ok"
               THEN /\ pc' = [pc EXCEPT ![l] = "select"]
                    /\ held' = [held EXCEPT ![l] = 0]
               ELSE /\ pc' = [pc EXCEPT ![l] = "turn_err"]
                    /\ UNCHANGED held
    /\ UNCHANGED <<extvars, ctlvars, chanvars, callvars, agentvars, cmd, turn_id, inchan, out_closed,
                   plan_sent, plan_closed, submitted, budget, accepted, guarded,
                   pause_acked>>

\* execution_loop, process_input_message returned Err: an Error output with
\* turn_count() is sent (a failure of the send is logged) and set_error is called.
TurnErr(l) ==
    /\ pc[l] = "turn_err"
    /\ SendReturns(l)
    /\ output' = IF out_closed[l] THEN output
                 ELSE [output EXCEPT ![l] = Append(@, Out(turn_count, "Error", held[l]))]
    /\ execution_state' = "Error"
    /\ held' = [held EXCEPT ![l] = 0]
    /\ pc' = [pc EXCEPT ![l] = "select"]
    /\ UNCHANGED <<extvars, turn_count, is_paused, should_stop, chanvars, callvars, agentvars, cmd,
                   turn_id, inchan, out_closed, plan_sent, plan_closed, submitted, budget,
                   histvars>>

\* ------------------------------------------- execution_loop, after the loop

\* The final Completed is sent with turn_count(); a failed send is logged.
FinalSend(l) ==
    /\ pc[l] = "final"
    /\ SendReturns(l)
    /\ output' = IF out_closed[l] THEN output
                 ELSE [output EXCEPT ![l] = Append(@, Out(turn_count, "Completed", 0))]
    /\ pc' = [pc EXCEPT ![l] = "final_state"]
    /\ UNCHANGED <<extvars, ctlvars, chanvars, callvars, agentvars, cmd, held, turn_id, inchan,
                   out_closed, plan_sent, plan_closed, submitted, budget, histvars>>

\* The final state is set and the function returns: the context is dropped,
\* with its receivers, and with them the commands still queued.
FinalSet(l) ==
    /\ pc[l] = "final_state"
    /\ execution_state' = FinalState(execution_state, should_stop)
    /\ pc' = [pc EXCEPT ![l] = "exited"]
    /\ input_closed' = [input_closed EXCEPT ![l] = TRUE]
    /\ input_q' = [input_q EXCEPT ![l] = <<>>]
    /\ IF rx_owner = l
       THEN /\ rx_owner' = -1
            /\ control_q' = <<>>
            /\ slot' = [c \in Callers |->
                          IF \E i \in 1..Len(control_q) : control_q[i].from = c
                          THEN "dropped" ELSE slot[c]]
       ELSE UNCHANGED <<rx_owner, control_q, slot>>
    /\ UNCHANGED <<extvars, turn_count, is_paused, should_stop, lock, callvars, agentvars, cmd, held,
                   turn_id, nsent, outchan, budget, histvars>>

\* --------------------------------------------------------- AgentHandle

LoopResult_ErrAfterFailure(st) == IF st = "Error" THEN "Err" ELSE "Ok"

\* execution_loop returns Ok(()) at its end, whatever the lifecycle state is.
LoopResult(st) == "Ok"

\* The JoinHandle of the spawned task is ready when execution_loop has returned.
TaskFinished(p) == p = "exited"

\* AgentHandle, awaited (as a Future or through await_completion): the join
\* handle is ready and the result of the task is returned.
AwaitCompletion(l) ==
    /\ resolved[l] = "no"
    /\ TaskFinished(pc[l])
    /\ resolved' = [resolved EXCEPT ![l] = LoopResult(execution_state)]
    /\ UNCHANGED <<consvars, purevars, tickvars, ctlvars, chanvars, callvars, agentvars,
                   loopvars, iovars, histvars>>

\* ------------------------------------------------------- specification

Caller(c) ==
    \/ \E k \in Kinds : CallBegin(c, k)
    \/ CallSend(c)
    \/ CallReturn(c)

Environment(l) ==
    \/ SendInput(l)
    \/ CloseInput(l)
    \/ CloseOutput(l)
    \/ ClosePlan(l)

Loop(l) ==
    \/ SelectControl(l)
    \/ ControlFinish(l)
    \/ SelectInput(l)
    \/ SelectInputClosed(l)
    \/ SelectTick(l)
    \/ WaitIfPausedPoll(l)
    \/ WaitDone(l)
    \/ TurnInc(l)
    \/ TurnStart(l)
    \/ Submit(l)
    \/ SubmitFail(l)
    \/ EventsCheck(l)
    \/ \E e \in EventKinds : Fetch(l, e)
    \/ FetchErr(l)
    \/ TurnErr(l)
    \/ FinalSend(l)
    \/ FinalSet(l)

\* A session: one execute() on the Agent, its loop, its channels and the
\* callers of its controller.
Next ==
    \/ \E c \in Callers : Caller(c)
    \/ ExecuteFirst
    \/ nexec = 0 /\ ExecuteFail
    \/ \E l \in Loops : Environment(l)
    \/ \E l \in Loops : Loop(l)

Spec == Init /\ [][Next]_vars

\* The Agent with execute() called again (query() calls it too): the later
\* loops share the controller and hold a closed control receiver.
ReexecNext ==
    \/ \E c \in Callers : Caller(c)
    \/ ExecuteFirst
    \/ ExecuteFail
    \/ ExecuteAgain
    \/ \E l \in Loops : TotalSent < MaxReexecInputs /\ SendInput(l)
    \/ \E l \in Loops : CloseInput(l)
    \/ \E l \in Loops : Loop(l)
    \/ \E l \in Loops : SelectControlClosed(l)

ReexecSpec == Init /\ [][ReexecNext]_vars

\* ------------------------------------------------ events with their payload

\* Message fragments and plans the engine can send.
Texts == {<<"a">>, <<" ">>}

Plans == {<<>>, <<[step |-> "s1", status |-> "Completed"],
                  [step |-> "s2", status |-> "InProgress"]>>}

\* The events of a stream: kind and payload.
StreamEvents ==
    [kind : {"AgentMessageDelta", "AgentReasoningDelta"}, arg : Texts]
    \cup [kind : {"AgentMessage"}, arg : {<<"a">>}]
    \cup [kind : {"PlanUpdate"}, arg : Plans]
    \cup [kind : {"TaskStarted", "TokenCount", "TurnAborted", "TaskComplete"}, arg : {NoArg}]

\* The consumer receives the oldest message of the output channel.
RecvOutput(l) ==
    /\ pc[l] # "none"
    /\ ~out_closed[l]
    /\ nrecv[l] < Len(output[l])
    /\ nrecv' = [nrecv EXCEPT ![l] = @ + 1]
    /\ UNCHANGED <<ctlvars, chanvars, callvars, agentvars, loopvars, iovars, histvars,
                   out_cap, qpc, qtext, purevars, tickvars, handvars>>

\* The steps of a loop that no controller call disturbs.
Turn(l) ==
    \/ SelectInput(l)
    \/ SelectInputClosed(l)
    \/ WaitDone(l)
    \/ TurnInc(l)
    \/ TurnStart(l)
    \/ Submit(l)
    \/ SubmitFail(l)
    \/ EventsCheck(l)
    \/ \E ev \in StreamEvents : FetchEvent(l, ev.kind, ev.arg, MaxStreamEvents)
    \/ FetchErr(l)
    \/ TurnErr(l)
    \/ FinalSend(l)
    \/ FinalSet(l)

\* A session without controller calls, seen with the content of its messages:
\* one execute() with an output channel of a small capacity, the loop, and a
\* consumer that receives from the output channel.
StreamInit == \E cap \in 1..MaxCap : InitCap(cap)

StreamNext ==
    \/ ExecuteFirst
    \/ \E l \in Loops : TotalSent < MaxStreamInputs /\ SendInput(l)
    \/ \E l \in Loops : CloseInput(l)
    \/ \E l \in Loops : CloseOutput(l)
    \/ \E l \in Loops : ClosePlan(l)
    \/ \E l \in Loops : RecvOutput(l)
    \/ \E l \in Loops : Turn(l)

StreamSpec == StreamInit /\ [][StreamNext]_vars

\* --------------------------------------------------------- Agent::query

\* str::trim on a text given as its characters
RECURSIVE TrimStart(_)
TrimStart(t) == IF t # <<>> /\ Head(t) = " " THEN TrimStart(Tail(t)) ELSE t

RECURSIVE TrimEnd(_)
TrimEnd(t) ==
    IF t # <<>> /\ t[Len(t)] = " " THEN TrimEnd(SubSeq(t, 1, Len(t) - 1)) ELSE t

Trim(t) == TrimEnd(TrimStart(t))

\* query() up to the return of execute(): it makes its channels, sends its one
\* message on the input channel and closes it, and execute() sets Running and
\* spawns the loop (a later loop gets the receiver of a channel whose sender
\* is gone). query() borrows the Agent, so one query runs at a time.
QueryExecute ==
    /\ nexec < MaxLoops
    /\ \A l \in Loops : qpc[l] \notin {"recv", "await"}
    /\ nexec' = nexec + 1
    /\ exec_err' = FALSE
    /\ execution_state' = ExecuteState
    /\ pc' = [pc EXCEPT ![nexec + 1] = "select"]
    /\ rx_owner' = IF rx_owner = 0 THEN nexec + 1 ELSE rx_owner
    /\ input_q' = [input_q EXCEPT ![nexec + 1] = <<1>>]
    /\ nsent' = [nsent EXCEPT ![nexec + 1] = 1]
    /\ input_closed' = [input_closed EXCEPT ![nexec + 1] = TRUE]
    /\ qpc' = [qpc EXCEPT ![nexec + 1] = "recv"]
    /\ UNCHANGED <<turn_count, is_paused, should_stop, lock, control_q, slot, callvars,
                   cmd, held, turn_id, outchan, budget, histvars, nrecv, out_cap, qtext,
                   purevars, tickvars, handvars>>

\* query()'s receive loop takes one output: the content of a Primary or a
\* PrimaryDelta is appended, Completed ends the loop, Error makes query()
\* return the error (which drops its receivers and detaches the loop), and
\* anything else is ignored.
QueryRecv(l) ==
    /\ qpc[l] = "recv"
    /\ nrecv[l] < Len(output[l])
    /\ nrecv' = [nrecv EXCEPT ![l] = @ + 1]
    /\ LET o == output[l][nrecv[l] + 1]
       IN  /\ qtext' = IF o.data \in {"Primary", "PrimaryDelta"}
                       THEN [qtext EXCEPT ![l] = @ \o o.text]
                       ELSE qtext
           /\ qpc' = [qpc EXCEPT ![l] = CASE o.data = "Completed" -> "await"
                                           [] o.data = "Error"     -> "Err"
                                           [] OTHER                -> "recv"]
           /\ out_closed' = IF o.data = "Error" THEN [out_closed EXCEPT ![l] = TRUE]
                                                ELSE out_closed
           /\ plan_closed' = IF o.data = "Error" THEN [plan_closed EXCEPT ![l] = TRUE]
                                                 ELSE plan_closed
    /\ UNCHANGED <<ctlvars, chanvars, callvars, agentvars, loopvars, inchan, output,
                   plan_sent, submitted, budget, histvars, out_cap, purevars, tickvars, handvars>>

\* After Completed query() awaits the handle: when the loop has returned,
\* query() returns the trimmed text and drops its receivers.
QueryReturn(l) ==
    /\ qpc[l] = "await"
    /\ pc[l] = "exited"
    /\ qpc' = [qpc EXCEPT ![l] = "Ok"]
    /\ qtext' = [qtext EXCEPT ![l] = Trim(@)]
    /\ out_closed' = [out_closed EXCEPT ![l] = TRUE]
    /\ plan_closed' = [plan_closed EXCEPT ![l] = TRUE]
    /\ UNCHANGED <<ctlvars, chanvars, callvars, agentvars, loopvars, inchan, output,
                   plan_sent, submitted, budget, histvars, nrecv, out_cap, purevars, tickvars, handvars>>

\* An Agent on which query() is called, once and again, with no controller
\* calls.
QueryNext ==
    \/ QueryExecute
    \/ \E l \in Loops : QueryRecv(l)
    \/ \E l \in Loops : QueryReturn(l)
    \/ \E l \in Loops : Turn(l)
    \/ \E l \in Loops : SelectControlClosed(l)

QuerySpec == Init /\ [][QueryNext]_vars

\* ------------------------------------- convert_event_to_output on its own

\* The variants of EventMsg that convert_event_to_output names, PlanUpdate,
\* and one of those it leaves to its last arm.
AllEventKinds ==
    {"AgentMessage", "AgentMessageDelta", "AgentReasoning", "AgentReasoningDelta",
     "AgentReasoningRawContent", "AgentReasoningRawContentDelta", "TaskComplete",
     "TaskStarted", "Error", "ExecCommandBegin", "ExecCommandEnd", "McpToolCallBegin",
     "McpToolCallEnd", "WebSearchBegin", "PatchApplyBegin", "PatchApplyEnd",
     "ExecCommandOutputDelta", "StreamError", "TokenCount", "SessionConfigured",
     "ConversationHistory", "McpListToolsResponse", "GetHistoryEntryResponse",
     "TurnAborted", "ShutdownComplete", "PlanUpdate", "BackgroundEvent"}

\* convert_event_to_output(&event): the event is converted once more.
NormalizeEvent ==
    /\ Len(norm_out) < MaxApplications
    /\ norm_out' = Append(norm_out, [data |-> ConvertEventToOutput(norm_in.kind),
                                      text |-> OutputText(norm_in.kind, norm_in.arg)])
    /\ UNCHANGED <<ctlvars, chanvars, callvars, agentvars, loopvars, iovars, histvars,
                   consvars, norm_in, plan_in, plan_pct, tickvars, handvars>>

\* The state of the loop's controller changes between two conversions.
LoopStateChanges ==
    /\ \E p \in BOOLEAN, st \in BOOLEAN, t \in 0..MaxInputs :
          /\ is_paused' = p
          /\ should_stop' = st
          /\ turn_count' = t
    /\ UNCHANGED <<execution_state, chanvars, callvars, agentvars, loopvars, iovars,
                   histvars, extvars>>

\* One event, converted repeatedly while the state of the loop changes.
NormInit == \E k \in AllEventKinds, a \in Texts : InitWith(QueryCapacity, [kind |-> k, arg |-> a])

NormNext == NormalizeEvent \/ LoopStateChanges

NormSpec == NormInit /\ [][NormNext]_vars

\* The scheduling the runtime gives: a spawned loop task that can take a step
\* takes one, and a call that can take the lock or read its response does.
\* What the caller does (calls, inputs, closing channels, execute) is free.
FairSpec ==
    /\ Spec
    /\ \A l \in Loops : WF_vars(Loop(l))
    /\ \A c \in Callers : WF_vars(CallSend(c) \/ CallReturn(c))

\* ----------------------------------------------------------- properties

\* Input m = <<l, k>> was forwarded: its turn was counted, a Start or another
\* output was emitted for it, or it was submitted to the engine.
Forwarded(m) ==
    \/ m \in accepted
    \/ \E i \in 1..Len(submitted[m[1]]) : submitted[m[1]][i] = m[2]
    \/ \E i \in 1..Len(output[m[1]]) : output[m[1]][i].input = m[2]

\* C1: an input sent after a pause() was acknowledged is not forwarded to the
\* engine (no turn_count increment, no Start, no submission) as long as no
\* resume() has been called; and once a Stop has been applied no input is
\* forwarded any more.
C1_PauseSafety ==
    /\ [](\A m \in guarded : ~Forwarded(m))
    /\ [][should_stop => accepted' = accepted /\ submitted' = submitted]_vars

\* C1 witness: the loop holds an input that was sent under an acknowledged
\* pause and waits in wait_if_paused.
C1_Witness ==
    \E l \in Loops : /\ pc[l] = "wait_paused"
                     /\ <<l, held[l]>> \in guarded
                     /\ is_paused

\* C2 (as claimed): when the loop holds an input while paused and resume() has
\* been called, the resume is applied and the held input becomes a turn.
C2_ResumeReleasesHeldInput ==
    \A l \in Loops :
        (/\ pc[l] = "wait_paused"
         /\ is_paused
         /\ \E c \in Callers : cpc[c] = "awaiting" /\ ccmd[c] = "Resume")
        ~> (pc[l] = "turn_inc")

\* C3 (as claimed): every call of pause()/resume()/stop() whose command was
\* sent to a started loop eventually returns.
C3_EveryCallReturns ==
    \A c \in Callers :
        (cpc[c] = "awaiting" /\ nexec > 0) ~> (cpc[c] = "idle")

\* A call returns in this step without having waited for a response.
ReturnsUnanswered ==
    \/ ncalls' > ncalls /\ cpc' = cpc
    \/ \E c \in Callers : cpc[c] = "locking" /\ cpc'[c] = "idle"

StopApplied == should_stop /\ ~is_paused /\ execution_state = "Stopped"

\* C7 (as claimed): once a Stop has been applied, should_stop stays true,
\* is_paused stays false and the state stays Stopped.
C7_StopIrreversible == [][StopApplied => StopApplied']_vars

\* C8: after should_stop is set, no input is taken, counted or submitted and
\* the loop goes to its exit; the control branch leaves the loop only after
\* a Stop, and goes back to the select after a Pause or a Resume.
C8_NoInputAfterStop ==
    /\ [](\A l \in Loops : (should_stop /\ pc[l] \notin {"none", "control"})
                               => pc[l] \in {"final", "final_state", "exited"})
    /\ [][should_stop => /\ turn_count' = turn_count
                         /\ submitted' = submitted
                         /\ \A l \in Loops : held'[l] \in {held[l], 0}]_vars
    /\ [][\A l \in Loops :
             (pc[l] = "control" /\ pc'[l] # "control")
             => IF cmd[l].kind = "Stop" THEN pc'[l] = "final"
                                        ELSE pc'[l] = "select"]_vars

\* C8 witness: the loop exited after a Stop and an input that was sent was
\* never counted.
C8_Witness ==
    /\ should_stop
    /\ \E l \in Loops : pc[l] = "exited" /\ nsent[l] > turn_count

\* C9: turn_count is the number of inputs accepted so far; a step leaves it
\* unchanged or adds exactly one, and it adds one exactly when the loop
\* accepts an input.
C9_TurnCountMonotonic ==
    /\ [](turn_count = Cardinality(accepted))
    /\ [][\/ turn_count' = turn_count /\ accepted' = accepted
          \/ /\ turn_count' = turn_count + 1
             /\ \E l \in Loops : /\ pc[l] = "turn_inc"
                                 /\ accepted' = accepted \cup {<<l, held[l]>>}
                                 /\ <<l, held[l]>> \notin accepted]_vars

\* C9 witness: two inputs were counted, one turn ended with an error, and the
\* loop has exited.
C9_Witness ==
    /\ turn_count = 2
    /\ \E l \in Loops : /\ pc[l] = "exited"
                        /\ \E i \in 1..Len(output[l]) : output[l][i].data = "Error"

\* C10: every output of the turn of the k-th input carries turn_id k; the
\* final Completed carries the turn_count at exit, which without a stop is
\* the number N of inputs sent (0 when N = 0); and turn_count is N after
\* the loop exited without a stop.
C10_TurnIds ==
    \A l \in Loops :
        /\ \A i \in 1..Len(output[l]) :
              IF output[l][i].input > 0
              THEN output[l][i].turn_id = output[l][i].input
              ELSE /\ output[l][i].data = "Completed"
                   /\ output[l][i].turn_id = turn_count
                   /\ ~should_stop => output[l][i].turn_id = nsent[l]
        /\ (pc[l] = "exited" /\ ~should_stop) => turn_count = nsent[l]

\* C10 witness: two inputs were processed, the loop exited without a stop and
\* the final Completed was emitted.
C10_Witness ==
    /\ ~should_stop
    /\ \E l \in Loops : /\ pc[l] = "exited"
                        /\ nsent[l] = 2
                        /\ Len(output[l]) >= 5
                        /\ output[l][Len(output[l])].input = 0

\* C10 (as claimed): without a stop, every output, the final Completed
\* included, carries a turn_id in 1..N for the N inputs sent.
C10_TurnIdsInRange ==
    ~should_stop =>
        \A l \in Loops : \A i \in 1..Len(output[l]) :
            output[l][i].turn_id \in 1..nsent[l]

\* C11: every message on the output channel carries a turn_id that the
\* counter has already reached: turn_id <= turn_count.
C11_CounterBeforeOutput ==
    \A l \in Loops : \A i \in 1..Len(output[l]) :
        output[l][i].turn_id <= turn_count

\* C11 witness: the Start of the second turn is on the channel and the
\* counter is 2.
C11_Witness ==
    /\ turn_count = 2
    /\ \E l \in Loops : /\ output[l] # <<>>
                        /\ output[l][Len(output[l])] = Out(2, "Start", 2)

\* The messages of the output channel of loop l that belong to input k, and
\* what follows the Start among them.
TurnOutputs(l, k) ==
    LET OfTurn(o) == o.input = k IN SelectSeq(output[l], OfTurn)

AfterStart(l, k) ==
    LET t == TurnOutputs(l, k) IN
    IF t # <<>> /\ t[1].data = "Start" THEN Tail(t) ELSE t

\* The engine events fetched in the turn of input k of loop l.
TurnEvents(l, k) ==
    LET OfTurn(x) == x.input = k /\ x.ev \in EventKinds IN SelectSeq(events[l], OfTurn)

\* The turn of input k of loop l met a failed fetch.
FetchFailed(l, k) ==
    \E i \in 1..Len(events[l]) : events[l][i].input = k /\ events[l][i].ev = "FetchError"

\* The normal form of an engine event as the specification gives it ("" for
\* an event that has no output).
Normalized(e) ==
    CASE e = "AgentMessageDelta" -> "PrimaryDelta"
      [] e = "TaskComplete"      -> "Completed"
      [] e = "TurnAborted"       -> "Error"
      [] e = "Error"             -> "Error"
      [] OTHER                   -> ""

NormalizedEvents(l, k) ==
    LET Kept(x) == Normalized(x.ev) # ""
        kept == SelectSeq(TurnEvents(l, k), Kept)
    IN  [i \in 1..Len(kept) |-> Normalized(kept[i].ev)]

\* C12: the outputs of a turn after its Start are the normalized engine events
\* of the turn in the engine's order, without reordering or duplication: the
\* two sequences agree position by position, they are equal when nothing
\* failed in the turn, and otherwise differ only at the end (one output whose
\* send failed is missing, or one Error that reports the failure is added).
C12_OutputsInEventOrder ==
    \A l \in Loops : \A k \in 1..nsent[l] :
        LET outs == AfterStart(l, k)
            norm == NormalizedEvents(l, k)
        IN  /\ \A i \in 1..Len(outs) :
                  i <= Len(norm) => outs[i].data = norm[i]
            /\ Len(outs) <= Len(norm) + 1
            /\ Len(norm) <= Len(outs) + 1
            /\ Len(outs) = Len(norm) + 1 => outs[Len(outs)].data = "Error"
            /\ Len(norm) = Len(outs) + 1 => out_closed[l]
            /\ (/\ ~out_closed[l] /\ ~plan_closed[l] /\ ~FetchFailed(l, k)
                /\ TurnEvents(l, k) # <<>>)
                  => Len(outs) = Len(norm)

\* C12 witness: a turn fetched a message delta and then the task completion,
\* and both outputs are on the channel.
C12_Witness ==
    \E l \in Loops :
        /\ Len(TurnEvents(l, 1)) = 2
        /\ Len(AfterStart(l, 1)) = 2
        /\ AfterStart(l, 1)[1].data = "PrimaryDelta"
        /\ AfterStart(l, 1)[2].data = "Completed"

\* C13: when the engine answers the first input with message deltas followed
\* by the task completion and the output receiver is there, the turn is over
\* and its outputs are, in order, Start, one PrimaryDelta per delta, and
\* Completed, all with turn_id 1.
C13_SingleTurn ==
    \A l \in Loops :
        LET ev == TurnEvents(l, 1)
            n  == Len(ev)
        IN  (/\ n >= 1
             /\ ev[n].ev = "TaskComplete"
             /\ \A i \in 1..(n - 1) : ev[i].ev = "AgentMessageDelta"
             /\ ~out_closed[l])
            => /\ held[l] # 1
               /\ TurnOutputs(l, 1) =
                     <<Out(1, "Start", 1)>>
                     \o [i \in 1..(n - 1) |-> Out(1, "PrimaryDelta", 1)]
                     \o <<Out(1, "Completed", 1)>>

\* C13 witness: one input was sent, the engine gave a delta and the task
\* completion, and the channel shows Start, PrimaryDelta, Completed.
C13_Witness ==
    \E l \in Loops :
        /\ nsent[l] = 1
        /\ Len(TurnEvents(l, 1)) = 2
        /\ output[l] = <<Out(1, "Start", 1), Out(1, "PrimaryDelta", 1),
                         Out(1, "Completed", 1)>>

\* C14: a loop that waits in its select with the input channel closed and
\* empty exits; when it has left the loop its final Completed is the last
\* message on the output channel (unless the receiver is gone), and after the
\* exit the state is Idle if no stop was requested.
C14_ClosedInputExit ==
    /\ \A l \in Loops :
          (pc[l] = "select" /\ input_closed[l] /\ input_q[l] = <<>>)
              ~> (pc[l] = "exited")
    /\ [](\A l \in Loops :
            pc[l] \in {"final_state", "exited"}
                => \/ out_closed[l]
                   \/ /\ output[l] # <<>>
                      /\ output[l][Len(output[l])] = Out(turn_count, "Completed", 0))
    /\ [](\A l \in Loops :
            (pc[l] = "exited" /\ ~should_stop) => execution_state = "Idle")

\* C14 witness: the input channel was closed, no stop was requested, the loop
\* has exited after its final Completed and the state is Idle.
C14_Witness ==
    \E l \in Loops :
        /\ pc[l] = "exited"
        /\ ~should_stop
        /\ nsent[l] = 1
        /\ output[l] # <<>>
        /\ output[l][Len(output[l])] = Out(1, "Completed", 0)
        /\ execution_state = "Idle"

\* C15 (as claimed): when a loop returns (and no command is being handled),
\* the state is Idle if no stop was requested and Stopped if one was; and the
\* final Completed, sent once after every turn output, is the last message of
\* the loop unless the receiver is gone.
C15_ExitLeavesIdleOrStopped ==
    /\ [][\A l \in Loops :
             (/\ pc[l] = "final_state" /\ pc'[l] = "exited"
              /\ \A j \in Loops : pc[j] # "control")
             => IF should_stop THEN execution_state' = "Stopped"
                               ELSE execution_state' = "Idle"]_vars
    /\ [](\A l \in Loops :
            pc[l] = "exited"
                => \/ out_closed[l]
                   \/ /\ output[l] # <<>>
                      /\ output[l][Len(output[l])].data = "Completed"
                      /\ output[l][Len(output[l])].input = 0)

\* C16 (as claimed): the outputs of a turn hold at most one Completed or
\* Error, and nothing follows it in the turn.
C16_OneTerminalPerTurn ==
    \A l \in Loops : \A k \in 1..nsent[l] :
        LET t == TurnOutputs(l, k) IN
        \A i \in 1..Len(t) :
            t[i].data \in {"Completed", "Error"} => i = Len(t)

\* C17 (as claimed): after a TaskComplete, a TurnAborted or a failed fetch no
\* further event is fetched in the same turn.
C17_FetchEndsAtTerminal ==
    \A l \in Loops : \A i \in 1..Len(events[l]) :
        (i < Len(events[l])
         /\ events[l][i].ev \in {"TaskComplete", "TurnAborted", "FetchError"})
            => events[l][i + 1].input # events[l][i].input

\* The number of Error messages among the outputs of a turn.
ErrorOutputs(l, k) ==
    LET t == TurnOutputs(l, k) IN
    Cardinality({i \in 1..Len(t) : t[i].data = "Error"})

\* The engine reported an error or an abort in the turn.
ErrorEvents(l, k) ==
    \E i \in 1..Len(events[l]) :
        events[l][i].input = k /\ events[l][i].ev \in {"TurnAborted", "Error"}

\* C18: a failed fetch (with the output receiver there) sends one Error with
\* the turn's turn_id and sends the loop back to its select, without changing
\* the counter; the turn has no other Error output that the engine did not
\* cause, and the outputs of the next input carry the next turn_id.
C18_FetchErrorEndsTurnOnly ==
    /\ [][\A l \in Loops :
            (/\ Len(events'[l]) > Len(events[l])
             /\ events'[l][Len(events'[l])].ev = "FetchError"
             /\ ~out_closed[l])
            => /\ output'[l] = Append(output[l], Out(turn_count, "Error", held[l]))
               /\ pc'[l] = "select"
               /\ turn_count' = turn_count]_vars
    /\ [](\A l \in Loops : \A k \in 1..nsent[l] :
            (FetchFailed(l, k) /\ ~ErrorEvents(l, k))
            => /\ ErrorOutputs(l, k) <= 1
               /\ ErrorOutputs(l, k) = 1 \/ out_closed[l]
               /\ \A i \in 1..Len(output[l]) :
                     output[l][i].input = k + 1 => output[l][i].turn_id = k + 1)

\* C18 witness: the first turn ended with a failed fetch and the second input
\* has started its turn with turn_id 2.
C18_Witness ==
    \E l \in Loops :
        /\ FetchFailed(l, 1)
        /\ ErrorOutputs(l, 1) = 1
        /\ \E i \in 1..Len(output[l]) : output[l][i] = Out(2, "Start", 2)

\* A turn of loop l ends in this step otherwise than by a task completion:
\* by a failed fetch, or after process_input_message returned an error.
TurnEndsFailed(l) ==
    /\ pc[l] \in {"ev_wait", "turn_err"}
    /\ pc'[l] = "select"
    /\ ~(/\ Len(events'[l]) > Len(events[l])
         /\ events'[l][Len(events'[l])].ev = "TaskComplete")

\* C19 (as claimed): when a turn fails, an Error output of the turn is the
\* last message on the channel (unless the receiver is gone), the state is
\* Error, and the loop is back at its select.
C19_FailureSetsErrorState ==
    [][\A l \in Loops :
          TurnEndsFailed(l)
          => /\ execution_state' = "Error"
             /\ \/ out_closed[l]
                \/ /\ output'[l] # <<>>
                   /\ output'[l][Len(output'[l])].data = "Error"
                   /\ output'[l][Len(output'[l])].input = held[l]]_vars

\* C20 (as claimed): with the plan receiver gone and the output receiver
\* there, no step of a turn makes process_input_message return an error.
C20_ClosedPlanOnlySuppresses ==
    [][\A l \in Loops :
          (plan_closed[l] /\ ~out_closed[l] /\ pc[l] = "ev_wait")
              => pc'[l] # "turn_err"]_vars

\* C25: commands are applied in send order. A command is sent only when every
\* command sent before it has been applied and answered (or dropped with the
\* loop) and its call has returned; the loop takes the oldest command in
\* flight, handles one command at a time, and answers the command it took.
C25_CommandsInSendOrder ==
    /\ [][Len(control_q') > Len(control_q)
            => /\ control_q = <<>>
               /\ control_q' = <<[kind |-> control_q'[1].kind, from |-> control_q'[1].from]>>
               /\ \A l \in Loops : pc[l] # "control"
               /\ \A c \in Callers : cpc[c] # "awaiting"]_vars
    /\ [][\A l \in Loops :
            (pc[l] # "control" /\ pc'[l] = "control")
            => /\ cmd'[l] = Head(control_q)
               /\ control_q' = Tail(control_q)
               /\ is_paused' = (cmd'[l].kind = "Pause")
               /\ should_stop' = (should_stop \/ cmd'[l].kind = "Stop")]_vars
    /\ [][\A l \in Loops :
            (pc[l] = "control" /\ pc'[l] # "control")
            => /\ slot[cmd[l].from] = "pending"
               /\ slot'[cmd[l].from] = "Ok"
               /\ execution_state' = StateAfter(cmd[l].kind)]_vars

\* C25 witness: a pause() was applied and returned Ok, and the resume() sent
\* after it has been applied and answered.
C25_Witness ==
    /\ ncalls = 2
    /\ last_ret.cmd = "Pause" /\ last_ret.res = "Ok"
    /\ \E c \in Callers : cpc[c] = "awaiting" /\ ccmd[c] = "Resume" /\ slot[c] = "Ok"
    /\ ~is_paused
    /\ execution_state = "Running"

\* A stop() (a pause() with no resume() called since) was requested while a
\* turn was in progress: its command was sent then and has not been applied.
StopRequested ==
    \E i \in 1..Len(control_q) :
        control_q[i].kind = "Stop" /\ cmidturn[control_q[i].from]

PauseRequested ==
    /\ \E i \in 1..Len(control_q) :
          control_q[i].kind = "Pause" /\ cmidturn[control_q[i].from]
    /\ ~ResumeCalled

\* C26 (as claimed): a stop() or pause() requested while a turn is in progress
\* takes effect at the turn's next checkpoint: when the loop passes the
\* should_stop test of the event loop with a stop() requested it leaves the
\* turn, and with a pause() requested it reaches wait_if_paused with is_paused
\* set.
C26_MidTurnCheckpoint ==
    [][\A l \in Loops :
          (pc[l] = "events" /\ pc'[l] # "events")
          => /\ StopRequested => pc'[l] = "select"
             /\ PauseRequested => is_paused']_vars

\* The engine answers every submission with a stream of events that ends with
\* one TaskComplete, one submission after the other (a failed fetch is taken
\* to end the stream of its submission too). So the i-th thing that
\* next_event() returned to loop l was caused by the submission that follows
\* the ones whose stream had ended before (0: by none).
CompletedBefore(l, i) ==
    Cardinality({j \in 1..(i - 1) : events[l][j].ev \in {"TaskComplete", "FetchError"}})

CausedBy(l, i) ==
    IF CompletedBefore(l, i) < Len(submitted[l])
    THEN submitted[l][CompletedBefore(l, i) + 1]
    ELSE 0

\* C27 (as claimed): every engine event is handled in the turn of the input
\* whose submission caused it, so its output carries that input's turn_id and
\* a TaskComplete ends the turn of its own submission only.
C27_TurnIdOfCause ==
    \A l \in Loops : \A i \in 1..Len(events[l]) :
        events[l][i].ev \in EventKinds => events[l][i].input = CausedBy(l, i)

\* C28: a call of execute() that fails in its setup returns the error and
\* leaves everything as it was: the lifecycle state, the flags and the counter
\* are unchanged, no loop is started and the control receiver stays where it
\* is; while execute() has only failed the state is Idle, not Running.
C28_SetupFailureChangesNothing ==
    /\ [][(~exec_err /\ exec_err')
            => UNCHANGED <<ctlvars, nexec, pc, rx_owner>>]_vars
    /\ []((exec_err /\ nexec = 0)
            => /\ execution_state = "Idle"
               /\ turn_count = 0 /\ ~is_paused /\ ~should_stop
               /\ rx_owner = 0
               /\ \A l \in Loops : pc[l] = "none")

\* C28 witness: a loop was started, the last call of execute() failed, and the
\* state is the one a command of the running loop set.
C28_Witness ==
    /\ exec_err
    /\ nexec = 1
    /\ execution_state = "Paused"

\* C29 (as claimed): a loop started by execute() leaves its select for the
\* exit only when its input channel is closed and empty (the controller keeps
\* the control channel open), and a command is taken by the loop that the
\* latest execute() started.
C29_LoopOwnsControlChannel ==
    [][\A l \in Loops :
          /\ (pc[l] = "select" /\ pc'[l] = "final")
                => (input_q[l] = <<>> /\ input_closed[l])
          /\ (pc[l] = "select" /\ pc'[l] = "control") => l = nexec]_vars

\* Loop l fetches something in this step whose handling sends an output.
FetchesWithOutput(l) ==
    /\ Len(events'[l]) > Len(events[l])
    /\ LET e == events'[l][Len(events'[l])].ev
       IN  e = "FetchError" \/ ConvertEventToOutput(e) # "None"

\* C21: the output channel never holds more than its capacity and the loop
\* sends only when there is room (it waits otherwise); a send appends one
\* message behind those already sent and nothing sent is taken back, so the
\* consumer, which takes the oldest message each time, receives every message
\* once and in send order; every fetched event that has an output is sent
\* while the receiver is there. With the receiver gone, a send of a turn makes
\* the turn fail, and the failed turn leads back to the select.
C21_BackPressure ==
    /\ [](\A l \in Loops : nrecv[l] <= Len(output[l]) /\ Buffered(l) <= out_cap[l])
    /\ [][\A l \in Loops :
            \/ output'[l] = output[l]
            \/ /\ Len(output'[l]) = Len(output[l]) + 1
               /\ SubSeq(output'[l], 1, Len(output[l])) = output[l]
               /\ ~out_closed[l]
               /\ Buffered(l) < out_cap[l]]_vars
    /\ [][\A l \in Loops : nrecv'[l] \in {nrecv[l], nrecv[l] + 1}]_vars
    /\ [][\A l \in Loops :
            (FetchesWithOutput(l) /\ ~out_closed[l])
                => Len(output'[l]) = Len(output[l]) + 1]_vars
    /\ [][\A l \in Loops :
            /\ (out_closed[l] /\ (FetchesWithOutput(l)
                                  \/ (pc[l] = "turn_start" /\ pc'[l] # "turn_start")))
                  => pc'[l] = "turn_err"
            /\ (pc[l] = "turn_err" /\ pc'[l] # "turn_err") => pc'[l] = "select"]_vars

\* C21 witness: the channel has room for one message, the consumer has received
\* the Start of the first turn, and the loop waits with the Start of the second
\* turn because the Completed of the first is still in the channel.
C21_Witness ==
    \E l \in Loops :
        /\ out_cap[l] = 1
        /\ ~out_closed[l]
        /\ pc[l] = "turn_start"
        /\ held[l] = 2
        /\ nrecv[l] >= 1
        /\ Buffered(l) = 1
        /\ output[l][Len(output[l])].data = "Completed"

\* Loop l fetches a plan update in this step.
FetchesPlanUpdate(l) ==
    /\ Len(events'[l]) > Len(events[l])
    /\ events'[l][Len(events'[l])].ev = "PlanUpdate"

\* The todos m are the plan items of plan, one for one.
SameItems(m, plan) ==
    /\ Len(m) = Len(plan)
    /\ \A i \in 1..Len(plan) : m[i].content = plan[i].step /\ m[i].status = plan[i].status

\* C22: a plan update puts nothing on the output channel (no output is a
\* TodoUpdate); while the plan receiver is there it puts exactly one message
\* on the plan channel, behind those already sent, whose todos are the plan
\* items of the event in length, order, content and status; and nothing else
\* puts a message on the plan channel.
C22_PlanUpdatesOnPlanChannel ==
    /\ [](\A l \in Loops : \A i \in 1..Len(output[l]) : output[l][i].data # "TodoUpdate")
    /\ [][\A l \in Loops :
            FetchesPlanUpdate(l)
            => /\ output'[l] = output[l]
               /\ ~plan_closed[l]
                    => /\ Len(plan_sent'[l]) = Len(plan_sent[l]) + 1
                       /\ SubSeq(plan_sent'[l], 1, Len(plan_sent[l])) = plan_sent[l]
                       /\ SameItems(plan_sent'[l][Len(plan_sent'[l])],
                                    events'[l][Len(events'[l])].arg)]_vars
    /\ [][\A l \in Loops :
            plan_sent'[l] # plan_sent[l] => FetchesPlanUpdate(l)]_vars

\* C22 witness: a plan of two items, one Completed and one InProgress, was
\* fetched and its message is on the plan channel, and the only output is the
\* Start of the turn.
C22_Witness ==
    \E l \in Loops :
        /\ Len(events[l]) = 1
        /\ events[l][1].ev = "PlanUpdate"
        /\ plan_sent[l] = <<  <<[content |-> "s1", status |-> "Completed"],
                               [content |-> "s2", status |-> "InProgress"]>>  >>
        /\ Len(output[l]) = 1

\* The fragments of the engine's delta events of kind e fetched in the turn of
\* input k of loop l, and the contents of the turn's outputs of kind d.
DeltaArgs(l, k, e) ==
    LET Is(x) == x.input = k /\ x.ev = e
        sel == SelectSeq(events[l], Is)
    IN  [i \in 1..Len(sel) |-> sel[i].arg]

DeltaTexts(l, k, d) ==
    LET Is(o) == o.input = k /\ o.data = d
        sel == SelectSeq(output[l], Is)
    IN  [i \in 1..Len(sel) |-> sel[i].text]

RECURSIVE Concat(_)
Concat(ss) == IF ss = <<>> THEN <<>> ELSE Head(ss) \o Concat(Tail(ss))

\* The outputs outs carry the fragments args one for one and in order (all of
\* them if complete, else all but the last ones).
Passed(outs, args, complete) ==
    /\ Len(outs) <= Len(args)
    /\ \A i \in 1..Len(outs) : outs[i] = args[i]
    /\ complete => (Len(outs) = Len(args) /\ Concat(outs) = Concat(args))

\* C24: in every turn the PrimaryDelta outputs carry the fragments of the
\* message deltas the engine sent in the turn, one output per event, with
\* the same content and in the same order, and the ReasoningDelta outputs
\* those of the reasoning deltas; so while the output receiver is there their
\* concatenation is the concatenation of the engine's fragments. A delta
\* event is answered in the step that fetches it by one output with its
\* fragment.
C24_DeltasPassThrough ==
    /\ [](\A l \in Loops : \A k \in 1..nsent[l] :
            /\ Passed(DeltaTexts(l, k, "PrimaryDelta"),
                      DeltaArgs(l, k, "AgentMessageDelta"), ~out_closed[l])
            /\ Passed(DeltaTexts(l, k, "ReasoningDelta"),
                      DeltaArgs(l, k, "AgentReasoningDelta"), ~out_closed[l]))
    /\ [][\A l \in Loops :
            (/\ Len(events'[l]) > Len(events[l])
             /\ events'[l][Len(events'[l])].ev = "AgentMessageDelta"
             /\ ~out_closed[l])
            => output'[l] = Append(output[l],
                                   OutWith(turn_id[l], "PrimaryDelta", held[l],
                                           events'[l][Len(events'[l])].arg))]_vars

\* C24 witness: the engine sent the fragments "a" and " " and completed the
\* task, and the turn's outputs are Start, the two PrimaryDelta, Completed.
C24_Witness ==
    \E l \in Loops :
        /\ DeltaTexts(l, 1, "PrimaryDelta") = << <<"a">>, <<" ">> >>
        /\ Len(output[l]) = 4
        /\ output[l][4].data = "Completed"

\* C23: every conversion of an event gives the same output, whatever the flags
\* and the counter of the loop are; a task completion and a shutdown completion
\* give Completed; an aborted turn gives Error with the reason "Turn was
\* aborted"; token counts, session configuration, conversation history, tool
\* list and history entry responses give no output.
C23_NormalizerFixed ==
    \A i \in 1..Len(norm_out) :
        LET r == norm_out[i]
            k == norm_in.kind
        IN  /\ r = norm_out[1]
            /\ k \in {"TaskComplete", "ShutdownComplete"}
                  => r = [data |-> "Completed", text |-> <<>>]
            /\ k = "TurnAborted" => r = [data |-> "Error", text |-> <<"Turn was aborted">>]
            /\ k \in {"TokenCount", "SessionConfigured", "ConversationHistory",
                      "McpListToolsResponse", "GetHistoryEntryResponse"}
                  => r.data = "None"

\* C23 witness: a shutdown completion was converted twice and gave Completed,
\* and the loop is paused with its counter at 2.
C23_Witness ==
    /\ norm_in.kind = "ShutdownComplete"
    /\ Len(norm_out) = 2
    /\ norm_out[2].data = "Completed"
    /\ is_paused
    /\ turn_count = 2

\* The contents of the Primary and PrimaryDelta outputs of loop l up to its
\* first Completed or Error.
RECURSIVE Answer(_)
Answer(outs) ==
    IF outs = <<>> \/ Head(outs).data \in {"Completed", "Error"} THEN <<>>
    ELSE IF Head(outs).data \in {"Primary", "PrimaryDelta"}
         THEN Head(outs).text \o Answer(Tail(outs))
         ELSE Answer(Tail(outs))

\* C30 (as claimed): a query() that returned Ok has forwarded its input, which
\* was submitted to the engine and answered up to the task completion, and
\* returns the trimmed contents of the Primary and PrimaryDelta outputs up to
\* the first Completed.
C30_QueryReturnsAnswer ==
    \A l \in Loops :
        qpc[l] = "Ok"
        => /\ submitted[l] = <<1>>
           /\ \E i \in 1..Len(events[l]) : events[l][i].ev = "TaskComplete"
           /\ qtext[l] = Trim(Answer(output[l]))

\* A running loop task takes a step.
LoopStep ==
    /\ callvars' = callvars
    /\ nexec' = nexec
    /\ \E l \in Loops : pc[l] \notin {"none", "exited"} /\ pc'[l] # pc[l]

\* C31 (as claimed): once a loop has been started, the lifecycle state, the
\* flags and the counter change only in steps of a loop task, and a message
\* leaves the input channel or the control channel only in such a step.
C31_SingleWriter ==
    [][nexec > 0
         => /\ ctlvars' # ctlvars => LoopStep
            /\ (\E l \in Loops : Len(input_q'[l]) < Len(input_q[l])) => LoopStep
            /\ Len(control_q') < Len(control_q) => LoopStep]_vars

\* ------------------------------------------- completion_percentage

StepStatuses == {"Pending", "InProgress", "Completed"}

MaxTodos == 4

RECURSIVE TodoLists(_)
TodoLists(n) ==
    IF n = 0
    THEN {<<>>}
    ELSE LET shorter == TodoLists(n - 1)
         IN  shorter \cup {Append(t, [content |-> "s", status |-> st]) :
                              t \in {u \in shorter : Len(u) = n - 1}, st \in StepStatuses}

\* plan.completion_percentage() is called on the plan message.
CallCompletionPercentage ==
    /\ plan_pct = NoPct
    /\ plan_pct' = CompletionPercentage(plan_in)
    /\ UNCHANGED <<ctlvars, chanvars, callvars, agentvars, loopvars, iovars, histvars,
                   consvars, norm_in, norm_out, plan_in, tickvars, handvars>>

\* One plan message with up to MaxTodos todos of any status.
PlanInit == \E todos \in TodoLists(MaxTodos) : InitAll(QueryCapacity, NoEvent, todos)

PlanNext == CallCompletionPercentage

PlanSpec == PlanInit /\ [][PlanNext]_vars

\* The number of todos of the plan whose status is Completed.
NumCompleted == Cardinality({i \in 1..Len(plan_in) : plan_in[i].status = "Completed"})

\* C32: completion_percentage() returns 1 for an empty plan; for a plan with
\* n > 0 todos of which c are Completed it returns c / n as an f32 (exactly
\* c / n when that is an f32 value, otherwise the f32 value next to it, at
\* most half a unit of the last of its 24 bits away), which is 0.6666667
\* for {done, done, pending}; the value is always between 0 and 1.
C32_CompletionPercentage ==
    plan_pct # NoPct =>
        LET n == Len(plan_in)
            c == NumCompleted
            v == plan_pct
        IN  /\ n = 0 => v = F32One
            /\ n > 0 =>
                  /\ c = 0 => v = F32Zero
                  /\ c > 0 =>
                        /\ 2^(F32Mant - 1) <= v.m /\ v.m <= 2^F32Mant
                        /\ 2 * v.m * n - 2 * c * 2^v.e <= n
                        /\ 2 * c * 2^v.e - 2 * v.m * n <= n
                  /\ (c = 2 /\ n = 3) => v = [m |-> 11184811, e |-> 24]
                  /\ c = n => v = F32One
            /\ 0 <= v.m /\ v.m <= 2^v.e

\* completion_percentage() was called on {done, done, pending} and returned
\* the f32 value of 2/3.
C32_Witness ==
    /\ Len(plan_in) = 3
    /\ plan_in[1].status = "Completed" /\ plan_in[2].status = "Completed"
    /\ plan_in[3].status = "Pending"
    /\ plan_pct = F32Div(2, 3)

\* state() locks the lifecycle state and loads the counter and the two flags
\* while it holds that lock (controller.rs 85-98), and a controller handle can
\* call it at any moment: what it returns is the state of the moment.
Snapshot ==
    [execution_state |-> execution_state, turn_count |-> turn_count,
     is_paused |-> is_paused, should_stop |-> should_stop]

\* C33 (as claimed): in every snapshot state() can return, is_paused = true
\* implies the lifecycle state Paused and should_stop = true implies the
\* lifecycle state Stopped.
C33_SnapshotConsistent ==
    /\ Snapshot.is_paused => Snapshot.execution_state = "Paused"
    /\ Snapshot.should_stop => Snapshot.execution_state = "Stopped"

\* The step sets the lifecycle state in execute().
ByExecute == nexec' # nexec

\* Loop l finishes applying a command of the given kind.
ByCommand(l, kind) == pc[l] = "control" /\ pc'[l] # "control" /\ cmd[l].kind = kind

\* Loop l handles the failure of its turn.
ByTurnFailure(l) == pc[l] = "turn_err" /\ pc'[l] # "turn_err"

\* Loop l sets its final state and exits.
ByLoopExit(l) == pc[l] = "final_state" /\ pc'[l] = "exited"

\* C34 (as claimed): the lifecycle state moves only from Idle to Running in
\* execute(), from a non-Stopped state to Paused by an applied Pause, from a
\* non-Stopped state to Running by an applied Resume, to Stopped by an applied
\* Stop, from Running or Error to Error by a failed turn, and from a
\* non-Stopped state to Idle on loop exit without stop; it never leaves
\* Stopped, and the loop that enters Error goes on selecting.
C34_LifecycleTransitions ==
    [][LET a == execution_state
           b == execution_state'
       IN  /\ a # b =>
                \/ ByExecute /\ a = "Idle" /\ b = "Running"
                \/ \E l \in Loops :
                      \/ ByCommand(l, "Pause") /\ a # "Stopped" /\ b = "Paused"
                      \/ ByCommand(l, "Resume") /\ a # "Stopped" /\ b = "Running"
                      \/ ByCommand(l, "Stop") /\ b = "Stopped"
                      \/ ByTurnFailure(l) /\ a = "Running" /\ b = "Error"
                      \/ ByLoopExit(l) /\ a # "Stopped" /\ b = "Idle" /\ ~should_stop
           /\ a = "Stopped" => b = "Stopped"
           /\ \A l \in Loops : ByTurnFailure(l) => b = "Error" /\ pc'[l] = "select"]_vars

\* ------------------------------------------------------ the periodic tick

\* A session of one loop whose first MaxTicks ticks are counted.
TickNext ==
    \/ \E c \in Callers : Caller(c)
    \/ ExecuteFirst
    \/ \E l \in Loops : SendInput(l)
    \/ \E l \in Loops : CloseInput(l)
    \/ \E l \in Loops : Loop(l)
    \/ \E l \in Loops : SelectTickCounted(l, MaxTicks)

TickSpec == Init /\ [][TickNext]_vars

\* C35: a step that takes the tick branch changes neither the lifecycle state,
\* turn_count, is_paused nor should_stop, takes nothing from the input or the
\* control channel, puts nothing on the output or the plan channel, and leaves
\* the loop in its select.
C35_TickIsNoOp ==
    [][nticks' # nticks
         => /\ UNCHANGED <<ctlvars, chanvars, inchan, outchan>>
            /\ \A l \in Loops : pc'[l] = pc[l]
            /\ \E l \in Loops : pc[l] = "select" /\ pc'[l] = "select"]_vars

\* A tick has been taken in a session in which a command and an input are
\* waiting in the channels of the selecting loop after a first turn.
C35_Witness ==
    /\ nticks = 1
    /\ pc[1] = "select"
    /\ turn_count = 1
    /\ control_q # <<>>
    /\ input_q[1] # <<>>

\* C36 (as claimed): once a snapshot of state() reports is_finished(), no
\* turn is started any more (turn_count does not increase and nothing is
\* submitted to the engine), and no snapshot reports both is_active() and
\* is_finished().
C36_FinishedIsFinal ==
    [][/\ IsFinished(Snapshot.execution_state)
          => /\ turn_count' = turn_count
             /\ submitted' = submitted
       /\ ~(IsActive(Snapshot.execution_state) /\ IsFinished(Snapshot.execution_state))]_vars

\* The calls whose command has been sent and whose response (or its drop) has
\* not been observed yet.
Unanswered == {c \in Callers : cpc[c] = "awaiting"}

\* C37: at most one control command is in flight across all clones of the
\* controller. At most one call has sent its command and not yet observed the
\* response, and that call holds the control-sender lock; the control channel
\* and the loop together hold at most one command, the lock holder's; a call
\* that waits for the lock has sent nothing.
C37_OneCommandInFlight ==
    /\ Cardinality(Unanswered) <= 1
    /\ \A c \in Unanswered : lock = c
    /\ Len(control_q) + Cardinality({l \in Loops : pc[l] = "control"}) <= 1
    /\ \A i \in 1..Len(control_q) : control_q[i].from \in Unanswered
    /\ \A l \in Loops : pc[l] = "control" => cmd[l].from \in Unanswered
    /\ \A c \in Callers :
          cpc[c] = "locking"
          => /\ slot[c] = "none"
             /\ \A i \in 1..Len(control_q) : control_q[i].from # c
             /\ \A l \in Loops : pc[l] = "control" => cmd[l].from # c

\* A stop() waits for the lock while the pause() of another caller, received
\* by the loop, is still unanswered.
C37_Witness ==
    \E c, d \in Callers :
        /\ cpc[c] = "awaiting" /\ ccmd[c] = "Pause" /\ slot[c] = "pending"
        /\ cpc[d] = "locking" /\ ccmd[d] = "Stop"
        /\ \E l \in Loops : pc[l] = "control" /\ cmd[l].from = c

\* The last turn loop l began fetched a task completion as its last event,
\* and no turn was begun after it.
LastTurnCompleted(l) ==
    /\ events[l] # <<>>
    /\ events[l][Len(events[l])].ev = "TaskComplete"
    /\ \A a \in accepted : a[1] = l => a[2] <= events[l][Len(events[l])].input

\* Loop l sends its final Completed in this step.
FinalEmitted(l) == pc[l] = "final" /\ pc'[l] = "final_state" /\ output'[l] # output[l]

C39_StartOncePerTurn ==
    \A l \in Loops :
        /\ \A i \in 1..Len(output[l]) :
              output[l][i].data = "Start"
              => \A j \in 1..Len(output[l]) :
                    (j # i /\ output[l][j].turn_id = output[l][i].turn_id)
                    => j > i /\ output[l][j].data # "Start"
        /\ \A k \in 1..Len(submitted[l]) :
              \E i \in 1..Len(output[l]) :
                  output[l][i].data = "Start" /\ output[l][i].input = submitted[l][k]

\* ------------------------------------------------- awaiting the handle

\* The Agent with execute() called once or again, one call of the controller,
\* consumers that may drop the output receiver, and the handles of the loops
\* awaited.
HandleNext ==
    \/ \E c \in Callers, k \in Kinds : ncalls = 0 /\ CallBegin(c, k)
    \/ \E c \in Callers : CallReturn(c)
    \/ ExecuteFirst
    \/ ExecuteAgain
    \/ \E l \in Loops : TotalSent < MaxReexecInputs /\ SendInput(l)
    \/ \E l \in Loops : CloseInput(l)
    \/ \E l \in Loops : CloseOutput(l)
    \/ \E l \in Loops : Loop(l)
    \/ \E l \in Loops : SelectControlClosed(l)
    \/ \E l \in Loops : AwaitCompletion(l)

HandleSpec == Init /\ [][HandleNext]_vars

\* C40: the handle of a loop resolves only when the loop has exited, after the
\* final Completed send was attempted and the final state was set, and it
\* resolves to Ok: after a stop, a closed input channel or a closed control
\* channel, also when turns failed and when the output receiver was gone.
C40_HandleResolvesOk ==
    /\ \A l \in Loops : resolved[l] # "no" => pc[l] = "exited" /\ resolved[l] = "Ok"
    /\ \A l \in Loops : pc[l] = "exited" => LoopResult(execution_state) = "Ok"

\* The handle resolved to Ok for a loop that began a turn, lost its output
\* receiver and exited by stop.
C40_Witness ==
    \E l \in Loops :
        /\ resolved[l] = "Ok"
        /\ execution_state = "Stopped"
        /\ out_closed[l]
        /\ turn_count >= 1
        /\ \E i \in 1..Len(output[l]) : output[l][i].data = "Start"

====
